---- MODULE Spec2Model ----
(***************************************************************************)
(* Payoff calculation engine of the Options Strategy Builder backend:      *)
(* PayoffCalculatorService (services/payoff_calculator.py) and the         *)
(* POST /payoff/calculate endpoint (routers/payoff.py).                    *)
(*                                                                         *)
(* Python floats are modelled as exact rationals <<n, d>> (d > 0, lowest   *)
(* terms); IEEE-754 rounding of the intermediate results is abstracted     *)
(* away, the explicit round(x, 2) of the output points is not.             *)
(***************************************************************************)
EXTENDS Integers, Sequences, FiniteSets, TLC

\* ------------------------------------------------------------------------
\* Rational arithmetic (the float operations used by the service)
\* ------------------------------------------------------------------------
Abs(a) == IF a < 0 THEN -a ELSE a

RECURSIVE GCD(_, _)
GCD(a, b) == IF b = 0 THEN a ELSE GCD(b, a % b)

\* n/d in lowest terms with a positive denominator, g = gcd(|n|, |d|)
NormBy(n, d, g) ==
    IF d < 0 THEN <<(-n) \div g, (-d) \div g>> ELSE <<n \div g, d \div g>>
Norm(n, d) == NormBy(n, d, GCD(Abs(n), Abs(d)))

R(i) == <<i, 1>>
Frac(n, d) == Norm(n, d)

RAddBy(x, y, g) ==
    Norm(x[1] * (y[2] \div g) + y[1] * (x[2] \div g), (x[2] \div g) * y[2])
RAdd(x, y) == RAddBy(x, y, GCD(x[2], y[2]))
RNeg(x) == <<-x[1], x[2]>>
RSub(x, y) == RAdd(x, RNeg(y))
RMulBy(a, b) == <<a[1] * b[1], a[2] * b[2]>>
RMul(x, y) == RMulBy(Norm(x[1], y[2]), Norm(y[1], x[2]))
\* x / y for y # 0 (y = 0 is the ZeroDivisionError of calculate_price_range)
RDiv(x, y) == RMul(x, Norm(y[2], y[1]))
RLt(x, y) == x[1] * y[2] < y[1] * x[2]
RLe(x, y) == x[1] * y[2] <= y[1] * x[2]
RGt(x, y) == RLt(y, x)
RIsZero(x) == x[1] = 0

\* round(x, 2): nearest multiple of 1/100, ties to the even multiple
Round2By(q, h, t, d) ==
    Norm(q * 100 + h + (IF 2 * t > d \/ (2 * t = d /\ (q * 100 + h) % 2 = 1)
                        THEN 1 ELSE 0), 100)
\* q = floor, r = x - q with 0 <= r < d
Round2From(q, r, d) ==
    Round2By(q, (r * 100) \div d, (r * 100) - ((r * 100) \div d) * d, d)
Round2(x) == Round2From(x[1] \div x[2], x[1] - (x[1] \div x[2]) * x[2], x[2])

\* x lies exactly half-way between two multiples of 1/100
IsTie(x) ==
    /\ (x[1] * 200) % x[2] = 0
    /\ ((x[1] * 200) \div x[2]) % 2 = 1

\* The values round(y, 2) can take when y is the binary float an evaluation
\* of the real number x produced: the rounding error of the evaluation is
\* far below 1/100, so off a tie the result is Round2(x), while at a tie the
\* float lies just below or just above x and the result is either
\* neighbour, depending on the operations that produced it.
Round2Outcomes(x) ==
    IF IsTie(x) THEN {RSub(x, Frac(1, 200)), RAdd(x, Frac(1, 200))}
    ELSE {Round2(x)}

\* ------------------------------------------------------------------------
\* Python values and outcomes
\* ------------------------------------------------------------------------
Num(x) == [t |-> "num", num |-> x]
Str(s) == [t |-> "str", str |-> s]
Tag(s) == [t |-> "tag", tag |-> s]          \* a str used only as a tag
None == [t |-> "none"]
Dict(d) == [t |-> "dict", dict |-> d]
List(l) == [t |-> "list", list |-> l]

Ok(v) == [ok |-> TRUE, val |-> v]
Raise(exc, text, arg) == [ok |-> FALSE, exc |-> exc, text |-> text, arg |-> arg]

Digits == {"0", "1", "2", "3", "4", "5", "6", "7", "8", "9"}
DigitVal(c) == CASE c = "0" -> 0 [] c = "1" -> 1 [] c = "2" -> 2 [] c = "3" -> 3
                 [] c = "4" -> 4 [] c = "5" -> 5 [] c = "6" -> 6 [] c = "7" -> 7
                 [] c = "8" -> 8 [] c = "9" -> 9

RECURSIVE DigitsVal(_)
DigitsVal(s) == IF s = <<>> THEN 0
                ELSE 10 * DigitsVal(SubSeq(s, 1, Len(s) - 1)) + DigitVal(s[Len(s)])

RECURSIVE Pow10(_)
Pow10(k) == IF k = 0 THEN 1 ELSE 10 * Pow10(k - 1)

AllDigits(s) == \A i \in 1..Len(s) : s[i] \in Digits

\* float(str): [sign] digits [. digits], at least one digit
ParseParts(s, neg, dots, ip, fp) ==
    IF /\ Cardinality(dots) <= 1
       /\ AllDigits(ip) /\ AllDigits(fp)
       /\ Len(ip) + Len(fp) > 0
    THEN Ok(IF neg
            THEN RNeg(RAdd(R(DigitsVal(ip)), Frac(DigitsVal(fp), Pow10(Len(fp)))))
            ELSE RAdd(R(DigitsVal(ip)), Frac(DigitsVal(fp), Pow10(Len(fp)))))
    ELSE Raise("ValueError", "could not convert string to float: ", Str(s))

ParseBody(s, neg, body, dots) ==
    ParseParts(s, neg, dots,
               IF dots = {} THEN body
               ELSE SubSeq(body, 1, (CHOOSE i \in dots : TRUE) - 1),
               IF dots = {} THEN <<>>
               ELSE SubSeq(body, (CHOOSE i \in dots : TRUE) + 1, Len(body)))

ParseSigned(s, neg, body) ==
    ParseBody(s, neg, body, {i \in 1..Len(body) : body[i] = "."})

ParseFloat(s) ==
    ParseSigned(s, Len(s) > 0 /\ s[1] = "-",
                IF Len(s) > 0 /\ s[1] = "-" THEN SubSeq(s, 2, Len(s)) ELSE s)

\* float(v)
Float(v) ==
    CASE v.t = "num"  -> Ok(v.num)
      [] v.t = "str"  -> ParseFloat(v.str)
      [] v.t = "tag"  ->
            Raise("ValueError", "could not convert string to float: ", v)
      [] v.t = "none" ->
            Raise("TypeError",
                  "float() argument must be a string or a real number, not ",
                  Str(<<"N", "o", "n", "e", "T", "y", "p", "e">>))

\* dict.get(key, default)
Get(d, key, default) == IF key \in DOMAIN d THEN d[key] ELSE default

\* ------------------------------------------------------------------------
\* calculate_price_range
\* ------------------------------------------------------------------------
NumPointsDefault == 50

\* variant: the range is divided into num_points steps
price_points_n_steps(min_price, max_price, num_points) ==
    IF num_points - 1 = 0
    THEN Raise("ZeroDivisionError", "float division by zero", None)
    ELSE Ok([k \in 1..(IF num_points > 0 THEN num_points ELSE 0) |->
                RAdd(min_price,
                     RMul(RDiv(RSub(max_price, min_price), R(num_points)),
                          R(k - 1)))])

\* step = (max_price - min_price) / (num_points - 1);
\* [min_price + i * step for i in range(num_points)]
price_points(min_price, max_price, num_points) ==
    IF num_points - 1 = 0
    THEN Raise("ZeroDivisionError", "float division by zero", None)
    ELSE Ok([k \in 1..(IF num_points > 0 THEN num_points ELSE 0) |->
                RAdd(min_price,
                     RMul(RDiv(RSub(max_price, min_price), R(num_points - 1)),
                          R(k - 1)))])

\* variant: the range starts at the reference price
calculate_price_range_upward(underlying_price, price_range_percent, num_points) ==
    price_points(underlying_price,
                 RMul(underlying_price,
                      RAdd(R(1), RDiv(price_range_percent, R(100)))),
                 num_points)

calculate_price_range(underlying_price, price_range_percent, num_points) ==
    price_points(RMul(underlying_price,
                      RSub(R(1), RDiv(price_range_percent, R(100)))),
                 RMul(underlying_price,
                      RAdd(R(1), RDiv(price_range_percent, R(100)))),
                 num_points)

\* ------------------------------------------------------------------------
\* Parameter extraction: float(parameters.get(key, default)) in source order
\* ------------------------------------------------------------------------
\* conv: the outcomes of a run of conversions; the first failure raises
FirstError(conv) ==
    LET bad == {i \in DOMAIN conv : ~conv[i].ok}
    IN  IF bad = {} THEN Ok([i \in DOMAIN conv |-> conv[i].val])
        ELSE conv[CHOOSE i \in bad : \A j \in bad : i <= j]

\* specs: sequence of <<key, default>>
Extract(parameters, specs) ==
    FirstError([i \in 1..Len(specs) |->
                   Float(Get(parameters, specs[i][1], Num(specs[i][2])))])

\* PayoffDataPoint(price=round(price, 2), pnl=round(total_pnl, 2))
\* variant: the P&L is stored as computed
PayoffDataPoint_raw_pnl(price, total_pnl) ==
    [price |-> Round2(price), pnl |-> total_pnl]

PayoffDataPoint(price, total_pnl) ==
    [price |-> Round2(price), pnl |-> Round2(total_pnl)]

\* Comparisons of the loop variable `price` with a strike.  side = "at" is the
\* comparison the code makes; side = "below" / "above" is the outcome the
\* same comparison has for prices arbitrarily close to `price` on that side,
\* i.e. it selects the branch expression used just below / just above.
PriceLe(price, k, side) == IF price = k THEN side # "above" ELSE RLe(price, k)
PriceLt(price, k, side) == IF price = k THEN side = "below" ELSE RLt(price, k)
PriceGt(price, k, side) == IF price = k THEN side = "above" ELSE RGt(price, k)

\* max(0, price - strike) and max(0, strike - price)
CallIntrinsic(price, strike, side) ==
    IF PriceGt(price, strike, side) THEN RSub(price, strike) ELSE R(0)
PutIntrinsic(price, strike, side) ==
    IF PriceLt(price, strike, side) THEN RSub(strike, price) ELSE R(0)

\* ------------------------------------------------------------------------
\* Fixed strategies: loop bodies (v = the extracted parameters, in order)
\* ------------------------------------------------------------------------
\* `if price <= call_strike` of the covered call
covered_call_keeps_premium(v, price, side) == PriceLe(price, v[2], side)

\* variant: the breached call is sized with the futures lot
covered_call_pnl_wrong_lot(v, price, side) ==
    LET futures_price == v[1]
        call_strike == v[2]
        premium == v[3]
        futures_lot_size == v[4]
        call_lot_size == v[5]
        futures_pnl == RMul(RSub(price, futures_price), futures_lot_size)
        call_pnl == IF covered_call_keeps_premium(v, price, side)
                    THEN RMul(premium, call_lot_size)
                    ELSE RMul(RSub(premium, RSub(price, call_strike)), futures_lot_size)
    IN  RAdd(futures_pnl, call_pnl)

covered_call_pnl(v, price, side) ==
    LET futures_price == v[1]
        call_strike == v[2]
        premium == v[3]
        futures_lot_size == v[4]
        call_lot_size == v[5]
        futures_pnl == RMul(RSub(price, futures_price), futures_lot_size)
        call_pnl == IF covered_call_keeps_premium(v, price, side)
                    THEN RMul(premium, call_lot_size)
                    ELSE RMul(RSub(premium, RSub(price, call_strike)), call_lot_size)
    IN  RAdd(futures_pnl, call_pnl)

bull_call_spread_pnl(v, price, side) ==
    LET long_call_strike == v[1]
        short_call_strike == v[2]
        long_call_premium == v[3]
        short_call_premium == v[4]
        lot_size == v[5]
        long_call_pnl == IF PriceLe(price, long_call_strike, side)
                         THEN RNeg(long_call_premium)
                         ELSE RSub(RSub(price, long_call_strike), long_call_premium)
        short_call_pnl == IF PriceLe(price, short_call_strike, side)
                          THEN short_call_premium
                          ELSE RSub(short_call_premium, RSub(price, short_call_strike))
    IN  RMul(RAdd(long_call_pnl, short_call_pnl), lot_size)

iron_condor_pnl(v, price, side) ==
    LET lot_size == v[1]
        put_buy_strike == v[2]
        put_sell_strike == v[3]
        call_sell_strike == v[4]
        call_buy_strike == v[5]
        net_premium == v[6]
        pnl0 == net_premium
        pnl1 == IF PriceLt(price, put_buy_strike, side)
                THEN RSub(pnl0, RSub(RSub(put_buy_strike, price),
                                     RSub(put_sell_strike, price)))
                ELSE IF PriceLt(price, put_sell_strike, side)
                     THEN RSub(pnl0, RSub(put_sell_strike, price))
                     ELSE pnl0
        pnl2 == IF PriceGt(price, call_buy_strike, side)
                THEN RSub(pnl1, RSub(RSub(price, call_buy_strike),
                                     RSub(price, call_sell_strike)))
                ELSE IF PriceGt(price, call_sell_strike, side)
                     THEN RSub(pnl1, RSub(price, call_sell_strike))
                     ELSE pnl1
    IN  RMul(pnl2, lot_size)

\* variant: the put premium is not paid
long_straddle_pnl_put_premium_unpaid(v, price, side) ==
    LET strike == v[1]
        call_premium == v[2]
        put_premium == v[3]
        lot_size == v[4]
        call_pnl == RSub(CallIntrinsic(price, strike, side), call_premium)
        put_pnl == PutIntrinsic(price, strike, side)
    IN  RMul(RAdd(call_pnl, put_pnl), lot_size)

long_straddle_pnl(v, price, side) ==
    LET strike == v[1]
        call_premium == v[2]
        put_premium == v[3]
        lot_size == v[4]
        call_pnl == RSub(CallIntrinsic(price, strike, side), call_premium)
        put_pnl == RSub(PutIntrinsic(price, strike, side), put_premium)
    IN  RMul(RAdd(call_pnl, put_pnl), lot_size)

protective_put_pnl(v, price, side) ==
    LET stock_price == v[1]
        put_strike == v[2]
        put_premium == v[3]
        lot_size == v[4]
        stock_pnl == RSub(price, stock_price)
        put_pnl == RSub(PutIntrinsic(price, put_strike, side), put_premium)
    IN  RMul(RAdd(stock_pnl, put_pnl), lot_size)

\* variant: one middle call is sold instead of two
butterfly_spread_pnl_single_middle(v, price, side) ==
    LET lower_strike == v[1]
        middle_strike == v[2]
        upper_strike == v[3]
        lower_premium == v[4]
        middle_premium == v[5]
        upper_premium == v[6]
        lot_size == v[7]
        lower_pnl == RSub(CallIntrinsic(price, lower_strike, side), lower_premium)
        middle_pnl == RSub(middle_premium,
                           CallIntrinsic(price, middle_strike, side))
        upper_pnl == RSub(CallIntrinsic(price, upper_strike, side), upper_premium)
    IN  RMul(RAdd(RAdd(lower_pnl, middle_pnl), upper_pnl), lot_size)

butterfly_spread_pnl(v, price, side) ==
    LET lower_strike == v[1]
        middle_strike == v[2]
        upper_strike == v[3]
        lower_premium == v[4]
        middle_premium == v[5]
        upper_premium == v[6]
        lot_size == v[7]
        lower_pnl == RSub(CallIntrinsic(price, lower_strike, side), lower_premium)
        middle_pnl == RMul(RSub(middle_premium,
                                CallIntrinsic(price, middle_strike, side)), R(2))
        upper_pnl == RSub(CallIntrinsic(price, upper_strike, side), upper_premium)
    IN  RMul(RAdd(RAdd(lower_pnl, middle_pnl), upper_pnl), lot_size)

\* ------------------------------------------------------------------------
\* Fixed strategies: parameter extraction and curve construction
\* ------------------------------------------------------------------------
covered_call_params(parameters, underlying_price) ==
    Extract(parameters, << <<"futuresPrice", underlying_price>>,
                           <<"callStrike", RAdd(underlying_price, R(500))>>,
                           <<"premium", R(200)>>,
                           <<"futuresLotSize", R(50)>>,
                           <<"callLotSize", R(50)>> >>)

bull_call_spread_params(parameters, underlying_price) ==
    Extract(parameters, << <<"longCallStrike", underlying_price>>,
                           <<"shortCallStrike", RAdd(underlying_price, R(1000))>>,
                           <<"longCallPremium", R(300)>>,
                           <<"shortCallPremium", R(150)>>,
                           <<"lotSize", R(50)>> >>)

\* variant: putBuyStrike defaults to the putSellStrike default
iron_condor_params_wrong_default(parameters, underlying_price) ==
    Extract(parameters, << <<"lotSize", R(50)>>,
                           <<"putBuyStrike", RSub(underlying_price, R(500))>>,
                           <<"putSellStrike", RSub(underlying_price, R(500))>>,
                           <<"callSellStrike", RAdd(underlying_price, R(500))>>,
                           <<"callBuyStrike", RAdd(underlying_price, R(1000))>>,
                           <<"netPremium", R(100)>> >>)

iron_condor_params(parameters, underlying_price) ==
    Extract(parameters, << <<"lotSize", R(50)>>,
                           <<"putBuyStrike", RSub(underlying_price, R(1000))>>,
                           <<"putSellStrike", RSub(underlying_price, R(500))>>,
                           <<"callSellStrike", RAdd(underlying_price, R(500))>>,
                           <<"callBuyStrike", RAdd(underlying_price, R(1000))>>,
                           <<"netPremium", R(100)>> >>)

long_straddle_params(parameters, underlying_price) ==
    Extract(parameters, << <<"strike", underlying_price>>,
                           <<"callPremium", R(300)>>,
                           <<"putPremium", R(300)>>,
                           <<"lotSize", R(50)>> >>)

protective_put_params(parameters, underlying_price) ==
    Extract(parameters, << <<"stockPrice", underlying_price>>,
                           <<"putStrike", RSub(underlying_price, R(500))>>,
                           <<"putPremium", R(200)>>,
                           <<"lotSize", R(50)>> >>)

butterfly_spread_params(parameters, underlying_price) ==
    Extract(parameters, << <<"lowerStrike", RSub(underlying_price, R(500))>>,
                           <<"middleStrike", underlying_price>>,
                           <<"upperStrike", RAdd(underlying_price, R(500))>>,
                           <<"lowerPremium", R(300)>>,
                           <<"middlePremium", R(200)>>,
                           <<"upperPremium", R(100)>>,
                           <<"lotSize", R(50)>> >>)

\* the loop body of the calculator registered under the name st
strategy_pnl(st, v, price, side) ==
    CASE st = "covered-call" -> covered_call_pnl(v, price, side)
      [] st = "bull-call-spread" -> bull_call_spread_pnl(v, price, side)
      [] st = "iron-condor" -> iron_condor_pnl(v, price, side)
      [] st = "long-straddle" -> long_straddle_pnl(v, price, side)
      [] st = "protective-put" -> protective_put_pnl(v, price, side)
      [] st = "butterfly-spread" -> butterfly_spread_pnl(v, price, side)

\* price_points = calculate_price_range(...); one PayoffDataPoint per price
PayoffData(ex, st, pts) ==
    IF ~ex.ok THEN ex
    ELSE IF ~pts.ok THEN pts
    ELSE Ok([k \in DOMAIN pts.val |->
                PayoffDataPoint(pts.val[k], strategy_pnl(st, ex.val, pts.val[k], "at"))])

calculate_covered_call(parameters, underlying_price, price_range_percent) ==
    PayoffData(covered_call_params(parameters, underlying_price),
               "covered-call",
               calculate_price_range(underlying_price, price_range_percent,
                                     NumPointsDefault))

calculate_bull_call_spread(parameters, underlying_price, price_range_percent) ==
    PayoffData(bull_call_spread_params(parameters, underlying_price),
               "bull-call-spread",
               calculate_price_range(underlying_price, price_range_percent,
                                     NumPointsDefault))

calculate_iron_condor(parameters, underlying_price, price_range_percent) ==
    PayoffData(iron_condor_params(parameters, underlying_price),
               "iron-condor",
               calculate_price_range(underlying_price, price_range_percent,
                                     NumPointsDefault))

calculate_long_straddle(parameters, underlying_price, price_range_percent) ==
    PayoffData(long_straddle_params(parameters, underlying_price),
               "long-straddle",
               calculate_price_range(underlying_price, price_range_percent,
                                     NumPointsDefault))

calculate_protective_put(parameters, underlying_price, price_range_percent) ==
    PayoffData(protective_put_params(parameters, underlying_price),
               "protective-put",
               calculate_price_range(underlying_price, price_range_percent,
                                     NumPointsDefault))

calculate_butterfly_spread(parameters, underlying_price, price_range_percent) ==
    PayoffData(butterfly_spread_params(parameters, underlying_price),
               "butterfly-spread",
               calculate_price_range(underlying_price, price_range_percent,
                                     NumPointsDefault))

\* ------------------------------------------------------------------------
\* Custom multi-leg strategy
\* ------------------------------------------------------------------------
\* variant: a sold future is valued like a bought one
leg_pnl_of_short_future_sign(leg_type, action, lot_size, entry_price, strike, premium, price, side) ==
    LET intrinsic == IF leg_type = Tag("CE")
                     THEN CallIntrinsic(price, strike.val, side)
                     ELSE PutIntrinsic(price, strike.val, side)
    IN  IF ~lot_size.ok THEN lot_size
        ELSE IF leg_type = Tag("FUT")
        THEN IF ~entry_price.ok THEN entry_price
             ELSE IF action = Tag("BUY")
                  THEN Ok(RMul(RSub(price, entry_price.val), lot_size.val))
                  ELSE Ok(RMul(RSub(price, entry_price.val), lot_size.val))
        ELSE IF ~strike.ok THEN strike
             ELSE IF ~premium.ok THEN premium
             ELSE IF action = Tag("BUY")
                  THEN Ok(RMul(RSub(intrinsic, premium.val), lot_size.val))
                  ELSE Ok(RMul(RSub(premium.val, intrinsic), lot_size.val))

\* variant: only a leg tagged SELL is valued as sold
leg_pnl_of_sold_when_tagged(leg_type, action, lot_size, entry_price, strike, premium, price, side) ==
    LET intrinsic == IF leg_type = Tag("CE")
                     THEN CallIntrinsic(price, strike.val, side)
                     ELSE PutIntrinsic(price, strike.val, side)
    IN  IF ~lot_size.ok THEN lot_size
        ELSE IF leg_type = Tag("FUT")
        THEN IF ~entry_price.ok THEN entry_price
             ELSE IF action # Tag("SELL")
                  THEN Ok(RMul(RSub(price, entry_price.val), lot_size.val))
                  ELSE Ok(RMul(RSub(entry_price.val, price), lot_size.val))
        ELSE IF ~strike.ok THEN strike
             ELSE IF ~premium.ok THEN premium
             ELSE IF action # Tag("SELL")
                  THEN Ok(RMul(RSub(intrinsic, premium.val), lot_size.val))
                  ELSE Ok(RMul(RSub(premium.val, intrinsic), lot_size.val))

\* the branches of the leg body; lot_size, entry_price, strike and premium are
\* the outcomes of the float() calls, each looked at only where the code
\* makes the call
leg_pnl_of(leg_type, action, lot_size, entry_price, strike, premium, price, side) ==
    LET intrinsic == IF leg_type = Tag("CE")
                     THEN CallIntrinsic(price, strike.val, side)
                     ELSE PutIntrinsic(price, strike.val, side)
    IN  IF ~lot_size.ok THEN lot_size
        ELSE IF leg_type = Tag("FUT")
        THEN IF ~entry_price.ok THEN entry_price
             ELSE IF action = Tag("BUY")
                  THEN Ok(RMul(RSub(price, entry_price.val), lot_size.val))
                  ELSE Ok(RMul(RSub(entry_price.val, price), lot_size.val))
        ELSE IF ~strike.ok THEN strike
             ELSE IF ~premium.ok THEN premium
             ELSE IF action = Tag("BUY")
                  THEN Ok(RMul(RSub(intrinsic, premium.val), lot_size.val))
                  ELSE Ok(RMul(RSub(premium.val, intrinsic), lot_size.val))

\* variant: the premium of a sold leg is not read
leg_pnl_sold_premium_unread(leg, underlying_price, price, side) ==
    leg_pnl_of(Get(leg, "type", None), Get(leg, "action", None),
               Float(Get(leg, "lotSize", Num(R(0)))),
               Float(Get(leg, "entryPrice", Num(underlying_price))),
               Float(Get(leg, "strike", Num(underlying_price))),
               IF Get(leg, "action", None) = Tag("BUY")
               THEN Float(Get(leg, "premium", Num(R(0))))
               ELSE Ok(R(0)),
               price, side)

\* body of `for leg in custom_legs`: the leg's P&L, or the first float() error
leg_pnl(leg, underlying_price, price, side) ==
    leg_pnl_of(Get(leg, "type", None), Get(leg, "action", None),
               Float(Get(leg, "lotSize", Num(R(0)))),
               Float(Get(leg, "entryPrice", Num(underlying_price))),
               Float(Get(leg, "strike", Num(underlying_price))),
               Float(Get(leg, "premium", Num(R(0)))),
               price, side)

\* variant: total_pnl = leg_pnl instead of total_pnl += leg_pnl
total_add_overwrite(total_pnl, l) == IF ~l.ok THEN l ELSE Ok(l.val)

\* total_pnl += leg_pnl, unless an earlier or this leg raised
total_add(total_pnl, l) == IF ~l.ok THEN l ELSE Ok(RAdd(total_pnl, l.val))

\* total_pnl after legs i.. of the list, total being the outcome so far
RECURSIVE custom_total_from(_, _, _, _, _, _)
custom_total_from(legs, underlying_price, price, side, i, total) ==
    IF i > Len(legs) \/ ~total.ok THEN total
    ELSE custom_total_from(legs, underlying_price, price, side, i + 1,
                           total_add(total.val,
                                     leg_pnl(legs[i], underlying_price, price, side)))

\* total_pnl = 0; for leg in custom_legs: ...
custom_total(legs, underlying_price, price, side) ==
    custom_total_from(legs, underlying_price, price, side, 1, Ok(R(0)))

\* `not custom_legs`
Falsy(custom_legs) ==
    custom_legs.t = "none" \/ (custom_legs.t = "list" /\ Len(custom_legs.list) = 0)

\* payoff_data.append(PayoffDataPoint(...)) per price, totals being the
\* per-price totals or the first error raised while computing them
custom_points(prices, totals) ==
    IF ~totals.ok THEN totals
    ELSE Ok([k \in DOMAIN prices |-> PayoffDataPoint(prices[k], totals.val[k])])

custom_curve(custom_legs, underlying_price, pts) ==
    IF ~pts.ok THEN pts
    ELSE IF custom_legs.t # "list"
    THEN Raise("TypeError", "'NoneType' object is not iterable", None)
    ELSE custom_points(pts.val,
             FirstError([k \in DOMAIN pts.val |->
                 custom_total(custom_legs.list, underlying_price, pts.val[k], "at")]))

\* variant: the evaluator itself returns [] for empty or absent legs
calculate_custom_strategy_guarded(custom_legs, underlying_price, price_range_percent) ==
    IF Falsy(custom_legs) THEN Ok(<<>>)
    ELSE custom_curve(custom_legs, underlying_price,
                      calculate_price_range(underlying_price, price_range_percent,
                                            NumPointsDefault))

calculate_custom_strategy(custom_legs, underlying_price, price_range_percent) ==
    custom_curve(custom_legs, underlying_price,
                 calculate_price_range(underlying_price, price_range_percent,
                                       NumPointsDefault))

\* ------------------------------------------------------------------------
\* Dispatcher and endpoint
\* ------------------------------------------------------------------------
\* variant: no `if not custom_legs` guard
calculate_payoff_unguarded(strategy_type, parameters0, underlying_price, price_range_percent, custom_legs) ==
    LET parameters == IF parameters0.t = "none" THEN <<>> ELSE parameters0.dict
    IN  IF strategy_type = "custom-strategy"
        THEN calculate_custom_strategy(custom_legs, underlying_price,
                                            price_range_percent)
        ELSE CASE strategy_type = "covered-call" ->
                    calculate_covered_call(parameters, underlying_price,
                                           price_range_percent)
               [] strategy_type = "bull-call-spread" ->
                    calculate_bull_call_spread(parameters, underlying_price,
                                               price_range_percent)
               [] strategy_type = "iron-condor" ->
                    calculate_iron_condor(parameters, underlying_price,
                                          price_range_percent)
               [] strategy_type = "long-straddle" ->
                    calculate_long_straddle(parameters, underlying_price,
                                            price_range_percent)
               [] strategy_type = "protective-put" ->
                    calculate_protective_put(parameters, underlying_price,
                                             price_range_percent)
               [] strategy_type = "butterfly-spread" ->
                    calculate_butterfly_spread(parameters, underlying_price,
                                               price_range_percent)
               [] OTHER ->
                    Raise("ValueError", "Unknown strategy type: ", strategy_type)

\* variant: an unknown strategy type falls back to the covered call
calculate_payoff_fallback(strategy_type, parameters0, underlying_price, price_range_percent, custom_legs) ==
    LET parameters == IF parameters0.t = "none" THEN <<>> ELSE parameters0.dict
    IN  IF strategy_type = "custom-strategy"
        THEN IF Falsy(custom_legs) THEN Ok(<<>>)
             ELSE calculate_custom_strategy(custom_legs, underlying_price,
                                            price_range_percent)
        ELSE CASE strategy_type = "covered-call" ->
                    calculate_covered_call(parameters, underlying_price,
                                           price_range_percent)
               [] strategy_type = "bull-call-spread" ->
                    calculate_bull_call_spread(parameters, underlying_price,
                                               price_range_percent)
               [] strategy_type = "iron-condor" ->
                    calculate_iron_condor(parameters, underlying_price,
                                          price_range_percent)
               [] strategy_type = "long-straddle" ->
                    calculate_long_straddle(parameters, underlying_price,
                                            price_range_percent)
               [] strategy_type = "protective-put" ->
                    calculate_protective_put(parameters, underlying_price,
                                             price_range_percent)
               [] strategy_type = "butterfly-spread" ->
                    calculate_butterfly_spread(parameters, underlying_price,
                                               price_range_percent)
               [] OTHER ->
                    calculate_covered_call(parameters, underlying_price,
                                           price_range_percent)

calculate_payoff(strategy_type, parameters0, underlying_price, price_range_percent, custom_legs) ==
    LET parameters == IF parameters0.t = "none" THEN <<>> ELSE parameters0.dict
    IN  IF strategy_type = "custom-strategy"
        THEN IF Falsy(custom_legs) THEN Ok(<<>>)
             ELSE calculate_custom_strategy(custom_legs, underlying_price,
                                            price_range_percent)
        ELSE CASE strategy_type = "covered-call" ->
                    calculate_covered_call(parameters, underlying_price,
                                           price_range_percent)
               [] strategy_type = "bull-call-spread" ->
                    calculate_bull_call_spread(parameters, underlying_price,
                                               price_range_percent)
               [] strategy_type = "iron-condor" ->
                    calculate_iron_condor(parameters, underlying_price,
                                          price_range_percent)
               [] strategy_type = "long-straddle" ->
                    calculate_long_straddle(parameters, underlying_price,
                                            price_range_percent)
               [] strategy_type = "protective-put" ->
                    calculate_protective_put(parameters, underlying_price,
                                             price_range_percent)
               [] strategy_type = "butterfly-spread" ->
                    calculate_butterfly_spread(parameters, underlying_price,
                                               price_range_percent)
               [] OTHER ->
                    Raise("ValueError", "Unknown strategy type: ", strategy_type)

\* try / except ValueError -> 400 / except Exception -> 500
http_response(out) ==
    IF out.ok THEN [status |-> 200, body |-> out.val]
    ELSE IF out.exc = "ValueError"
    THEN [status |-> 400,
          detail |-> [prefix |-> "", text |-> out.text, arg |-> out.arg]]
    ELSE [status |-> 500,
          detail |-> [prefix |-> "Internal server error: ",
                      text |-> out.text, arg |-> out.arg]]

\* ------------------------------------------------------------------------
\* Inputs
\* ------------------------------------------------------------------------
MaxLegs == 2          \* longest custom leg list
MaxPoints == 5        \* largest num_points passed explicitly (besides 50)

FixedStrategies == {"covered-call", "bull-call-spread", "iron-condor",
                    "long-straddle", "protective-put", "butterfly-spread"}

\* all dictionaries that give each key of `keys` no value or one of choice[key]
RECURSIVE DictsOver(_, _)
DictsOver(keys, choice) ==
    IF keys = <<>> THEN {<<>>}
    ELSE LET rest == DictsOver(Tail(keys), choice)
         IN  rest \cup {(Head(keys) :> c) @@ d : c \in choice[Head(keys)], d \in rest}

Keys(st) ==
    CASE st = "covered-call" ->
            <<"futuresPrice", "callStrike", "premium", "futuresLotSize", "callLotSize">>
      [] st = "bull-call-spread" ->
            <<"longCallStrike", "shortCallStrike", "longCallPremium",
              "shortCallPremium", "lotSize">>
      [] st = "iron-condor" ->
            <<"lotSize", "putBuyStrike", "putSellStrike", "callSellStrike",
              "callBuyStrike", "netPremium">>
      [] st = "long-straddle" ->
            <<"strike", "callPremium", "putPremium", "lotSize">>
      [] st = "protective-put" ->
            <<"stockPrice", "putStrike", "putPremium", "lotSize">>
      [] st = "butterfly-spread" ->
            <<"lowerStrike", "middleStrike", "upperStrike", "lowerPremium",
              "middlePremium", "upperPremium", "lotSize">>

Half(n) == Frac(n, 2)

Choices(st) ==
    CASE st = "covered-call" ->
            [futuresPrice |-> {Num(R(50))},
             callStrike |-> {Num(R(60)), Str(<<"4", "4", ".", "5">>)},
             premium |-> {Num(R(2))},
             futuresLotSize |-> {Num(R(2))},
             callLotSize |-> {Str(<<"3">>)}]
      [] st = "bull-call-spread" ->
            [longCallStrike |-> {Num(R(40)), Num(Half(89))},
             shortCallStrike |-> {Num(R(60)), Num(R(40))},
             longCallPremium |-> {Num(R(3))},
             shortCallPremium |-> {Num(R(1))},
             lotSize |-> {Num(R(2))}]
      [] st = "iron-condor" ->
            [lotSize |-> {Num(R(2))},
             putBuyStrike |-> {Num(R(30)), Num(R(40))},
             putSellStrike |-> {Num(R(40)), Num(Half(89))},
             callSellStrike |-> {Num(Half(89)), Num(R(60))},
             callBuyStrike |-> {Num(R(60)), Num(R(70))},
             netPremium |-> {Num(R(1))}]
      [] st = "long-straddle" ->
            [strike |-> {Num(Half(89)), Num(R(60))},
             callPremium |-> {Num(R(3))},
             putPremium |-> {Str(<<"2", ".", "5">>)},
             lotSize |-> {Num(R(2))}]
      [] st = "protective-put" ->
            [stockPrice |-> {Num(R(50))},
             putStrike |-> {Num(R(40)), Num(Half(89))},
             putPremium |-> {Num(R(2))},
             lotSize |-> {Num(R(2))}]
      [] st = "butterfly-spread" ->
            [lowerStrike |-> {Num(R(30)), Num(Half(89))},
             middleStrike |-> {Num(R(50)), Num(Half(89))},
             upperStrike |-> {Num(R(70)), Num(R(60))},
             lowerPremium |-> {Num(R(3))},
             middlePremium |-> {Num(R(2))},
             upperPremium |-> {Num(R(1))},
             lotSize |-> {Num(R(2))}]

\* values float() rejects
BadValues == {Str(<<"a">>), Str(<<"1", ".", "2", ".", "3">>), Str(<<>>), None}

KeySet(st) == {Keys(st)[i] : i \in 1..Len(Keys(st))}

MalformedDicts(st) ==
    {k :> b : k \in KeySet(st), b \in BadValues}
    \cup UNION {{(k1 :> Str(<<"a">>)) @@ (k2 :> None) :
                    k2 \in KeySet(st) \ {k1}} : k1 \in KeySet(st)}
    \cup {"bogus" :> Str(<<"a">>)}

\* the covered-call scenario of the documentation
ScenarioCoveredCall ==
    [futuresPrice |-> Str(<<"1", "8", "0", "0", "0">>),
     callStrike |-> Str(<<"1", "8", "5", "0", "0">>),
     premium |-> Str(<<"2", "0", "0">>),
     futuresLotSize |-> Str(<<"5", "0">>),
     callLotSize |-> Str(<<"5", "0">>)]

\* the long-straddle scenario of the documentation
ScenarioLongStraddle ==
    [strike |-> Str(<<"1", "8", "0", "0", "0">>),
     callPremium |-> Str(<<"3", "0", "0">>),
     putPremium |-> Str(<<"3", "0", "0">>),
     lotSize |-> Str(<<"5", "0">>)]

\* grids of the documented scenarios: step 10800/49, and step 500 from 0
ScenarioGrids == {<<R(18000), R(30)>>, <<R(12250), R(100)>>}

\* a bull call spread whose P&L is an odd multiple of 0.005 at the grid
\* prices 35.5, 44.5 and 53.5 of underlying_price 49, range 30
TieBullCallSpread ==
    [longCallStrike |-> Num(R(25)), shortCallStrike |-> Num(R(100)),
     longCallPremium |-> Num(R(19000)), shortCallPremium |-> Num(R(17500)),
     lotSize |-> Str(<<"0", ".", "0", "1">>)]

SmallGrids == {<<R(49), R(50)>>, <<R(49), R(100)>>}

Request(st, prm, g, legs) ==
    [strategy_type |-> st, parameters |-> prm, underlying_price |-> g[1],
     price_range_percent |-> g[2], custom_legs |-> legs]

CoreLegs ==
    { [type |-> Tag("FUT"), action |-> Tag("BUY"), lotSize |-> Num(R(1)),
       entryPrice |-> Num(R(50))],
      [type |-> Tag("FUT"), action |-> Tag("SELL"), lotSize |-> Num(R(1)),
       entryPrice |-> Num(R(50))],
      [type |-> Tag("FUT"), action |-> Tag("BUY"),
       lotSize |-> Str(<<"0", ".", "0", "1">>)],
      [type |-> Tag("CE"), action |-> Tag("BUY"), lotSize |-> Num(R(1)),
       strike |-> Num(R(60)), premium |-> Num(R(2))],
      [type |-> Tag("CE"), action |-> Tag("SELL"), lotSize |-> Num(R(1)),
       strike |-> Num(R(60)), premium |-> Num(R(2))],
      [type |-> Tag("PE"), action |-> Tag("BUY"), lotSize |-> Num(R(2)),
       strike |-> Num(R(40)), premium |-> Str(<<"1", ".", "5">>)],
      [type |-> Tag("PE"), action |-> Tag("SELL"), lotSize |-> Num(R(1))],
      <<>>,
      [type |-> Tag("XX"), action |-> Tag("HOLD"), lotSize |-> Num(R(1)),
       strike |-> Num(Half(89)), premium |-> Num(R(1))] }

\* legs with a field float() rejects
BadLegs ==
    { [type |-> Tag("FUT"), action |-> Tag("BUY"), lotSize |-> Num(R(1)),
       strike |-> Str(<<"a">>)],
      [type |-> Tag("CE"), action |-> Tag("BUY"), lotSize |-> Num(R(1)),
       premium |-> None],
      [type |-> Tag("CE"), action |-> Tag("BUY"), lotSize |-> Str(<<"a">>)] }

\* arguments of the direct calls of calculate_custom_strategy
DirectLegs ==
    { [type |-> Tag("FUT"), action |-> Tag("SELL"), lotSize |-> Num(R(1)),
       entryPrice |-> Num(R(50))],
      [type |-> Tag("FUT"), action |-> Tag("BUY"),
       lotSize |-> Str(<<"0", ".", "0", "1">>)],
      [type |-> Tag("CE"), action |-> Tag("BUY"), lotSize |-> Num(R(1)),
       strike |-> Num(R(60)), premium |-> Num(R(2))],
      [type |-> Tag("PE"), action |-> Tag("SELL"), lotSize |-> Num(R(1))],
      <<>> }

LegLists == UNION {[1..n -> DirectLegs] : n \in 0..MaxLegs}
LegArgs == {None} \cup {List(l) : l \in LegLists}

\* custom_legs of the requests
RequestLegArgs ==
    {None, List(<<>>)}
    \cup {List(<<l>>) : l \in CoreLegs \cup BadLegs}
    \cup {List(<<a, b>>) : a \in BadLegs, b \in BadLegs}
    \cup {List(<<a, b>>) : a \in CoreLegs, b \in CoreLegs}

\* a bought and a sold future and a bought and a sold put, interleaved
PairedLegs ==
    << [type |-> Tag("FUT"), action |-> Tag("BUY"), lotSize |-> Num(R(50)),
        entryPrice |-> Num(R(17900))],
       [type |-> Tag("PE"), action |-> Tag("BUY"), lotSize |-> Num(R(75)),
        strike |-> Num(R(18200)), premium |-> Str(<<"1", "2", "0", ".", "5">>)],
       [type |-> Tag("FUT"), action |-> Tag("SELL"), lotSize |-> Num(R(50)),
        entryPrice |-> Num(R(17900))],
       [type |-> Tag("PE"), action |-> Tag("SELL"), lotSize |-> Num(R(75)),
        strike |-> Num(R(18200)), premium |-> Str(<<"1", "2", "0", ".", "5">>)] >>

\* a leg without type and action, and a bought call without lotSize
TagEdgeLegs ==
    { [lotSize |-> Num(R(3)), strike |-> Num(R(60)), premium |-> Num(R(2))],
      [type |-> Tag("CE"), action |-> Tag("BUY"), strike |-> Num(R(60)),
       premium |-> Num(R(2))] }

UnknownTypes == {"", "Covered-Call", "not-a-strategy", "custom", "CUSTOM-STRATEGY"}

Requests ==
    {Request(st, Dict(d), g, None) :
        st \in FixedStrategies, d \in {<<>>}, g \in SmallGrids}
    \cup UNION {{Request(st, Dict(d), g, None) :
                    d \in DictsOver(Keys(st), Choices(st)), g \in SmallGrids} :
                st \in FixedStrategies}
    \cup UNION {{Request(st, Dict(d), <<R(49), R(50)>>, None) :
                    d \in MalformedDicts(st)} : st \in FixedStrategies}
    \cup {Request(st, None, g, None) : st \in FixedStrategies, g \in SmallGrids}
    \cup {Request("covered-call", p, g, None) :
             p \in {Dict(ScenarioCoveredCall), None},
             g \in {<<R(18000), R(30)>>, <<R(12250), R(100)>>}}
    \cup {Request("bull-call-spread", Dict(TieBullCallSpread), <<R(49), R(30)>>, None)}
    \cup {Request("long-straddle", p, g, None) :
             p \in {Dict(ScenarioLongStraddle), None}, g \in ScenarioGrids}
    \cup {Request(st, p, <<R(49), R(50)>>, None) :
             st \in UnknownTypes, p \in {None, Dict(<<>>)}}
    \cup {Request("custom-strategy", None, <<R(18000), R(30)>>, List(<<l>>)) :
             l \in {[type |-> Tag("FUT"), action |-> Tag("BUY"),
                     lotSize |-> Num(R(50))]}}
    \cup {Request("custom-strategy", None, <<R(49), R(50)>>, l) :
             l \in RequestLegArgs}
    \cup {Request("custom-strategy", None, <<R(18000), R(30)>>, List(PairedLegs))}
    \cup {Request("custom-strategy", None, <<R(49), R(50)>>, List(<<l>>)) :
             l \in TagEdgeLegs}
    \cup {Request("custom-strategy", Dict("lotSize" :> Str(<<"a">>)),
                  <<R(49), R(50)>>, l) : l \in {None, List(<<<<>>>>)}}

PriceRangeArgs ==
    {<<u, r, n>> : u \in {R(-49), R(0), R(49), R(18000), Frac(49, 2000)},
                   r \in {R(0), R(30), R(50), R(100), R(150)},
                   n \in (-1..MaxPoints) \cup {NumPointsDefault}}

\* ------------------------------------------------------------------------
\* State machine: one call at a time, each call runs to completion
\* ------------------------------------------------------------------------
VARIABLES pc,        \* "idle" | "done"
          op,        \* which operation was called
          args,      \* its arguments
          ret,       \* outcome of the service function (Ok / Raise)
          response,  \* HTTP response of the endpoint, None for direct calls
          frames,    \* concurrent callers of calculate_payoff: their locals
          db,        \* the strategies table: id -> row
          next_id,   \* the autoincrement sequence of strategies.id
          clock,     \* the database's now()
          last       \* the last call of StrategyService and what it returned

engineVars == <<pc, op, args, ret, response>>
callerVars == <<frames>>
storeVars == <<db, next_id, clock, last>>
vars == <<pc, op, args, ret, response, frames, db, next_id, clock, last>>

MaxCallers == 2       \* concurrent callers of calculate_payoff
Callers == 1..MaxCallers

\* the locals of a call of calculate_payoff that has not started
IdleFrame ==
    [pc |-> "idle", args |-> None, parameters |-> None, params |-> None,
     price_points |-> None, ret |-> None]

Init ==
    /\ pc = "idle"
    /\ op = "none"
    /\ args = None
    /\ ret = None
    /\ response = None
    /\ frames = [c \in Callers |-> IdleFrame]
    /\ db = <<>>
    /\ next_id = 1
    /\ clock = 0
    /\ last = [op |-> "none", strategy_id |-> 0, data |-> None, ret |-> None,
               status |-> 0]

\* POST /payoff/calculate
PostCalculatePayoff ==
    /\ pc = "idle"
    /\ \E request \in Requests :
          /\ op' = "calculate_payoff"
          /\ args' = request
          /\ ret' = calculate_payoff(request.strategy_type, request.parameters,
                                    request.underlying_price,
                                    request.price_range_percent,
                                    request.custom_legs)
    /\ response' = http_response(ret')
    /\ pc' = "done"
    /\ UNCHANGED <<callerVars, storeVars>>

\* PayoffCalculatorService.calculate_custom_strategy called directly
CallCustomStrategy ==
    /\ pc = "idle"
    /\ \E l \in LegArgs, g \in {<<R(49), R(50)>>} :
          /\ op' = "calculate_custom_strategy"
          /\ args' = [custom_legs |-> l, underlying_price |-> g[1],
                      price_range_percent |-> g[2]]
          /\ ret' = calculate_custom_strategy(l, g[1], g[2])
    /\ response' = None
    /\ pc' = "done"
    /\ UNCHANGED <<callerVars, storeVars>>

\* PayoffCalculatorService.calculate_price_range called directly
CallPriceRange ==
    /\ pc = "idle"
    /\ \E a \in PriceRangeArgs :
          /\ op' = "calculate_price_range"
          /\ args' = [underlying_price |-> a[1], price_range_percent |-> a[2],
                      num_points |-> a[3]]
          /\ ret' = calculate_price_range(a[1], a[2], a[3])
    /\ response' = None
    /\ pc' = "done"
    /\ UNCHANGED <<callerVars, storeVars>>

\* the caller takes the result; the service keeps nothing
Return ==
    /\ pc = "done"
    /\ pc' = "idle"
    /\ op' = "none"
    /\ args' = None
    /\ ret' = None
    /\ response' = None
    /\ UNCHANGED <<callerVars, storeVars>>

Next == PostCalculatePayoff \/ CallCustomStrategy \/ CallPriceRange \/ Return

Spec == Init /\ [][Next]_vars

\* ------------------------------------------------------------------------
\* The strategy table seen from outside: parameters and loop body per name
\* ------------------------------------------------------------------------
strategy_params(st, parameters, underlying_price) ==
    CASE st = "covered-call" -> covered_call_params(parameters, underlying_price)
      [] st = "bull-call-spread" -> bull_call_spread_params(parameters, underlying_price)
      [] st = "iron-condor" -> iron_condor_params(parameters, underlying_price)
      [] st = "long-straddle" -> long_straddle_params(parameters, underlying_price)
      [] st = "protective-put" -> protective_put_params(parameters, underlying_price)
      [] st = "butterfly-spread" -> butterfly_spread_params(parameters, underlying_price)

\* positions of the strike parameters among the extracted parameters
StrikeIdx(st) ==
    CASE st = "covered-call" -> {2}
      [] st = "bull-call-spread" -> {1, 2}
      [] st = "iron-condor" -> {2, 3, 4, 5}
      [] st = "long-straddle" -> {1}
      [] st = "protective-put" -> {2}
      [] st = "butterfly-spread" -> {1, 2, 3}

\* ------------------------------------------------------------------------
\* Concurrent callers of PayoffCalculatorService.calculate_payoff
\*
\* Every name the service assigns is a local of the call (parameters,
\* strategy_calculators, price_points, payoff_data, the loop variables); the
\* class has no attributes.  A caller's steps are the stretches of one call
\* between which another caller may run; each reads and writes the caller's
\* own frame only.
\* ------------------------------------------------------------------------
ConcurrentRequests ==
    { Request("covered-call", Dict(ScenarioCoveredCall), <<R(18000), R(30)>>, None),
      Request("covered-call", Dict("premium" :> Str(<<"a">>)), <<R(49), R(50)>>, None),
      Request("iron-condor", None, <<R(49), R(50)>>, None),
      Request("custom-strategy", None, <<R(49), R(50)>>,
              List(<<[type |-> Tag("FUT"), action |-> Tag("SELL"),
                      lotSize |-> Num(R(1)), entryPrice |-> Num(R(50))],
                     [type |-> Tag("CE"), action |-> Tag("BUY"),
                      lotSize |-> Num(R(1)), strike |-> Num(R(60)),
                      premium |-> Num(R(2))]>>)),
      Request("custom-strategy", None, <<R(49), R(50)>>, None),
      Request("not-a-strategy", Dict(<<>>), <<R(49), R(50)>>, None) }

\* the locals of caller c
Local(c) == frames[c]

\* calculate_payoff is entered: the arguments are bound
Invoke(c) ==
    /\ frames[c].pc = "idle"
    /\ \E request \in ConcurrentRequests :
          frames' = [frames EXCEPT ![c] =
                        [IdleFrame EXCEPT !.pc = "dispatch", !.args = request]]
    /\ UNCHANGED <<engineVars, storeVars>>

\* `if parameters is None`, the strategy table, the custom-strategy branch
\* and the lookup of the calculator
DispatchOf(f) ==
    IF f.args.strategy_type = "custom-strategy"
    THEN IF Falsy(f.args.custom_legs)
         THEN [f EXCEPT !.pc = "done", !.ret = Ok(<<>>)]
         ELSE [f EXCEPT !.pc = "grid"]
    ELSE IF f.args.strategy_type \notin FixedStrategies
    THEN [f EXCEPT !.pc = "done",
                   !.ret = Raise("ValueError", "Unknown strategy type: ",
                                 f.args.strategy_type)]
    ELSE [f EXCEPT !.pc = "extract",
                   !.parameters = IF f.args.parameters.t = "none" THEN <<>>
                                  ELSE f.args.parameters.dict]

Dispatch(c) ==
    /\ frames[c].pc = "dispatch"
    /\ frames' = [frames EXCEPT ![c] = DispatchOf(Local(c))]
    /\ UNCHANGED <<engineVars, storeVars>>

\* the float(parameters.get(...)) lines of the selected calculator
ExtractOf(f, ex) ==
    IF ex.ok THEN [f EXCEPT !.pc = "grid", !.params = ex.val]
    ELSE [f EXCEPT !.pc = "done", !.ret = ex]

ExtractParameters(c) ==
    /\ frames[c].pc = "extract"
    /\ frames' = [frames EXCEPT ![c] =
                     ExtractOf(Local(c),
                               strategy_params(Local(c).args.strategy_type,
                                               Local(c).parameters,
                                               Local(c).args.underlying_price))]
    /\ UNCHANGED <<engineVars, storeVars>>

\* price_points = PayoffCalculatorService.calculate_price_range(...)
PricePoints(c) ==
    /\ frames[c].pc = "grid"
    /\ frames' = [frames EXCEPT ![c] =
                     [Local(c) EXCEPT
                         !.pc = "loop",
                         !.price_points =
                             calculate_price_range(Local(c).args.underlying_price,
                                                   Local(c).args.price_range_percent,
                                                   NumPointsDefault)]]
    /\ UNCHANGED <<engineVars, storeVars>>

\* variant: price_points is kept in one place shared by the callers
price_points_of_shared(c) ==
    frames[CHOOSE d \in Callers :
              /\ frames[d].price_points # None
              /\ \A e \in Callers : frames[e].price_points # None => d <= e].price_points

\* the local price_points of caller c
price_points_of(c) == frames[c].price_points

\* `for price in price_points`: payoff_data is built and returned
LoopOf(f, pts) ==
    [f EXCEPT !.pc = "done",
              !.ret = IF f.args.strategy_type = "custom-strategy"
                      THEN custom_curve(f.args.custom_legs,
                                        f.args.underlying_price, pts)
                      ELSE PayoffData(Ok(f.params), f.args.strategy_type,
                                      pts)]

PriceLoop(c) ==
    /\ frames[c].pc = "loop"
    /\ frames' = [frames EXCEPT ![c] = LoopOf(Local(c), price_points_of(c))]
    /\ UNCHANGED <<engineVars, storeVars>>

\* the caller has the result; the locals of the call are gone
Finish(c) ==
    /\ frames[c].pc = "done"
    /\ frames' = [frames EXCEPT ![c] = IdleFrame]
    /\ UNCHANGED <<engineVars, storeVars>>

NextConcurrent ==
    \E c \in Callers :
        \/ Invoke(c)
        \/ Dispatch(c)
        \/ ExtractParameters(c)
        \/ PricePoints(c)
        \/ PriceLoop(c)
        \/ Finish(c)

SpecConcurrent == Init /\ [][NextConcurrent]_vars

\* ------------------------------------------------------------------------
\* StrategyService and the /strategies endpoints.  The endpoints are
\* coroutines that never await: each request runs to completion, in its own
\* session, before the next one starts.
\* ------------------------------------------------------------------------
MaxRows == 2          \* strategies ever created
MaxClock == 2         \* ticks of the database clock

\* the columns a request body can set ("same as create, all fields optional")
BodyFields == {"name", "strategy_type", "entry_date", "expiry_date",
               "parameters", "custom_legs", "notes"}

OneLeg == List(<<[type |-> Tag("FUT"), action |-> Tag("BUY"), lotSize |-> Num(R(1))]>>)

\* StrategyCreate bodies
CreateBodies ==
    { [name |-> Tag("A"), strategy_type |-> Tag("custom-strategy"),
       entry_date |-> Tag("2025-12-26"), expiry_date |-> Tag("2026-01-26"),
       parameters |-> Dict(<<>>), custom_legs |-> None, notes |-> Tag("n")] }

\* strategy_data.dict(exclude_unset=True) of StrategyUpdate bodies
UpdateBodies ==
    { <<>>,
      [name |-> Tag("B"), custom_legs |-> OneLeg, notes |-> None] }

\* Strategy(...); db.add; db.commit; db.refresh
create_strategy(db0, id, now, strategy_data) ==
    [ret |-> [id |-> id,
              name |-> strategy_data.name,
              strategy_type |-> strategy_data.strategy_type,
              entry_date |-> strategy_data.entry_date,
              expiry_date |-> strategy_data.expiry_date,
              parameters |-> strategy_data.parameters,
              custom_legs |-> IF Falsy(strategy_data.custom_legs) THEN List(<<>>)
                              ELSE strategy_data.custom_legs,
              notes |-> strategy_data.notes,
              created_at |-> now,
              updated_at |-> now],
     db |-> [i \in DOMAIN db0 \cup {id} |->
                IF i \in DOMAIN db0 THEN db0[i]
                ELSE [id |-> id,
                      name |-> strategy_data.name,
                      strategy_type |-> strategy_data.strategy_type,
                      entry_date |-> strategy_data.entry_date,
                      expiry_date |-> strategy_data.expiry_date,
                      parameters |-> strategy_data.parameters,
                      custom_legs |-> IF Falsy(strategy_data.custom_legs)
                                      THEN List(<<>>)
                                      ELSE strategy_data.custom_legs,
                      notes |-> strategy_data.notes,
                      created_at |-> now,
                      updated_at |-> now]]]

\* db.query(Strategy).filter(Strategy.id == strategy_id).first()
get_strategy_by_id(db0, strategy_id) ==
    IF strategy_id \in DOMAIN db0 THEN db0[strategy_id] ELSE None

\* setattr(db_strategy, field, value) for the fields of update_data
set_fields(row, update_data) ==
    [k \in DOMAIN row |-> IF k \in DOMAIN update_data THEN update_data[k] ELSE row[k]]

\* db.commit(): the UPDATE, issued when a column changed, sets updated_at
\* (onupdate=func.now())
commit_update(row, changed, now) ==
    IF changed = row THEN row ELSE [changed EXCEPT !.updated_at = now]

\* variant: a missing strategy is created from the update
update_strategy_upsert(db0, now, strategy_id, update_data) ==
    IF get_strategy_by_id(db0, strategy_id) = None
    THEN [ret |-> None,
          db |-> [i \in DOMAIN db0 \cup {strategy_id} |->
                     IF i \in DOMAIN db0 THEN db0[i] ELSE update_data]]
    ELSE [ret |-> commit_update(db0[strategy_id],
                                set_fields(db0[strategy_id], update_data), now),
          db |-> [db0 EXCEPT ![strategy_id] =
                     commit_update(db0[strategy_id],
                                   set_fields(db0[strategy_id], update_data), now)]]

update_strategy(db0, now, strategy_id, update_data) ==
    IF get_strategy_by_id(db0, strategy_id) = None
    THEN [ret |-> None, db |-> db0]
    ELSE [ret |-> commit_update(db0[strategy_id],
                                set_fields(db0[strategy_id], update_data), now),
          db |-> [db0 EXCEPT ![strategy_id] =
                     commit_update(db0[strategy_id],
                                   set_fields(db0[strategy_id], update_data), now)]]

\* variant: True is returned whether or not the strategy exists
delete_strategy_always_true(db0, strategy_id) ==
    IF get_strategy_by_id(db0, strategy_id) = None
    THEN [ret |-> TRUE, db |-> db0]
    ELSE [ret |-> TRUE,
          db |-> [i \in DOMAIN db0 \ {strategy_id} |-> db0[i]]]

delete_strategy(db0, strategy_id) ==
    IF get_strategy_by_id(db0, strategy_id) = None
    THEN [ret |-> FALSE, db |-> db0]
    ELSE [ret |-> TRUE,
          db |-> [i \in DOMAIN db0 \ {strategy_id} |-> db0[i]]]

\* what a request leaves behind for the observer
Called(name, strategy_id, data, out, status) ==
    [op |-> name, strategy_id |-> strategy_id, data |-> data, ret |-> out.ret,
     status |-> status]

\* POST /strategies
CreateStrategy ==
    /\ next_id <= MaxRows
    /\ \E strategy \in CreateBodies :
          /\ db' = create_strategy(db, next_id, clock, strategy).db
          /\ last' = Called("create_strategy", next_id, strategy,
                            create_strategy(db, next_id, clock, strategy), 201)
    /\ next_id' = next_id + 1
    /\ UNCHANGED <<clock, engineVars, callerVars>>

\* GET /strategies/{strategy_id}
GetStrategy ==
    /\ \E strategy_id \in 1..(MaxRows + 1) :
          last' = Called("get_strategy_by_id", strategy_id, None,
                         [ret |-> get_strategy_by_id(db, strategy_id)],
                         IF get_strategy_by_id(db, strategy_id) = None
                         THEN 404 ELSE 200)
    /\ UNCHANGED <<db, next_id, clock, engineVars, callerVars>>

\* PUT /strategies/{strategy_id}
UpdateStrategy ==
    /\ \E strategy_id \in 1..(MaxRows + 1), strategy \in UpdateBodies :
          /\ db' = update_strategy(db, clock, strategy_id, strategy).db
          /\ last' = Called("update_strategy", strategy_id, strategy,
                            update_strategy(db, clock, strategy_id, strategy),
                            IF update_strategy(db, clock, strategy_id, strategy).ret
                                  = None
                            THEN 404 ELSE 200)
    /\ UNCHANGED <<next_id, clock, engineVars, callerVars>>

\* DELETE /strategies/{strategy_id}
DeleteStrategy ==
    /\ \E strategy_id \in 1..(MaxRows + 1) :
          /\ db' = delete_strategy(db, strategy_id).db
          /\ last' = Called("delete_strategy", strategy_id, None,
                            delete_strategy(db, strategy_id),
                            IF delete_strategy(db, strategy_id).ret
                            THEN 200 ELSE 404)
    /\ UNCHANGED <<next_id, clock, engineVars, callerVars>>

\* time passes in the database
Tick ==
    /\ clock < MaxClock
    /\ clock' = clock + 1
    /\ UNCHANGED <<db, next_id, last, engineVars, callerVars>>

NextStore ==
    CreateStrategy \/ GetStrategy \/ UpdateStrategy \/ DeleteStrategy \/ Tick

SpecStore == Init /\ [][NextStore]_vars

\* ------------------------------------------------------------------------
\* Properties
\* ------------------------------------------------------------------------
IsCalc == pc = "done" /\ op = "calculate_payoff"
IsFixed == IsCalc /\ args.strategy_type \in FixedStrategies
ArgDict == IF args.parameters.t = "none" THEN <<>> ELSE args.parameters.dict
ArgParams == strategy_params(args.strategy_type, ArgDict, args.underlying_price)
ArgGrid == calculate_price_range(args.underlying_price, args.price_range_percent,
                                 NumPointsDefault).val

ContinuousAt(st, v, k) ==
    /\ strategy_pnl(st, v, k, "below") = strategy_pnl(st, v, k, "at")
    /\ strategy_pnl(st, v, k, "above") = strategy_pnl(st, v, k, "at")

\* C1: for every fixed strategy and every strike K of it, the branch
\* expression used just below K and the one used just above K both give, at
\* price = K, the P&L computed at price = K.
C1_ContinuousAtEveryStrike ==
    IsFixed =>
        LET prm == ArgParams
        IN  prm.ok => \A i \in StrikeIdx(args.strategy_type) :
                         ContinuousAt(args.strategy_type, prm.val, prm.val[i])

\* C2: the covered-call P&L of every returned point is
\* (price - futuresPrice) x futuresLotSize + callPnl with callPnl =
\* premium x callLotSize for price <= callStrike and
\* (premium - (price - callStrike)) x callLotSize otherwise; price = callStrike
\* takes the inclusive branch; in the documented scenario the P&L at 18500
\* is 35000.
C2Formula(v, price) ==
    RAdd(RMul(RSub(price, v[1]), v[4]),
         IF RLe(price, v[2]) THEN RMul(v[3], v[5])
         ELSE RMul(RSub(v[3], RSub(price, v[2])), v[5]))

C2_CoveredCallFormula ==
    (IsCalc /\ args.strategy_type = "covered-call" /\ ret.ok) =>
        LET v == ArgParams.val
            grid == ArgGrid
        IN  /\ \A k \in DOMAIN ret.val :
                  ret.val[k].pnl = Round2(C2Formula(v, grid[k]))
            /\ covered_call_keeps_premium(v, v[2], "at")
            /\ covered_call_pnl(v, v[2], "at") = C2Formula(v, v[2])
            /\ args.parameters = Dict(ScenarioCoveredCall) =>
                  /\ covered_call_pnl(v, R(18500), "at") = R(35000)
                  /\ \A k \in DOMAIN ret.val :
                        ret.val[k].price = R(18500) => ret.val[k].pnl = R(35000)

\* the documented scenario, with the strike 18500 one of the sampled prices
C2_Witness ==
    /\ IsCalc /\ args.strategy_type = "covered-call" /\ ret.ok
    /\ args.parameters = Dict(ScenarioCoveredCall)
    /\ \E k \in DOMAIN ret.val :
          ret.val[k] = [price |-> R(18500), pnl |-> R(35000)]

\* C3: for underlyingPrice > 0, rangePercent > 0 and pointCount >= 2 the grid
\* has exactly pointCount values, is strictly increasing, starts at
\* underlyingPrice x (1 - rangePercent/100), ends at
\* underlyingPrice x (1 + rangePercent/100) and has a constant step.
IsGridCall == pc = "done" /\ op = "calculate_price_range"
GridPre == /\ IsGridCall
           /\ RGt(args.underlying_price, R(0))
           /\ RGt(args.price_range_percent, R(0))
           /\ args.num_points >= 2

IsCustomCall == pc = "done" /\ op = "calculate_custom_strategy"
\* the evaluator ran on a leg list, called directly or by calculate_payoff
IsCustomList ==
    /\ \/ IsCustomCall
       \/ IsCalc /\ args.strategy_type = "custom-strategy" /\ ~Falsy(args.custom_legs)
    /\ args.custom_legs.t = "list"
CustomGrid == calculate_price_range(args.underlying_price,
                                    args.price_range_percent, NumPointsDefault).val
Alone(leg) == calculate_custom_strategy(List(<<leg>>), args.underlying_price,
                                        args.price_range_percent)
CurveOf(legs) == calculate_custom_strategy(List(legs), args.underlying_price,
                                           args.price_range_percent)

RECURSIVE RSum(_)
RSum(xs) == IF xs = <<>> THEN R(0) ELSE RAdd(Head(xs), RSum(Tail(xs)))

RAbs(x) == <<Abs(x[1]), x[2]>>

FieldOr(leg, key, default) ==
    IF key \in DOMAIN leg THEN Float(leg[key]).val ELSE default
RMax0(x) == IF RGt(x, R(0)) THEN x ELSE R(0)

WellTagged(leg) ==
    /\ {"type", "action", "lotSize"} \subseteq DOMAIN leg
    /\ leg.type \in {Tag("FUT"), Tag("CE"), Tag("PE")}
    /\ leg.action \in {Tag("BUY"), Tag("SELL")}

C5Formula(leg, U, p) ==
    LET lotSize == FieldOr(leg, "lotSize", R(0))
        entryPrice == FieldOr(leg, "entryPrice", U)
        strike == FieldOr(leg, "strike", U)
        premium == FieldOr(leg, "premium", R(0))
        intrinsic == IF leg.type = Tag("CE") THEN RMax0(RSub(p, strike))
                     ELSE RMax0(RSub(strike, p))
    IN  IF leg.type = Tag("FUT")
        THEN IF leg.action = Tag("BUY") THEN RMul(RSub(p, entryPrice), lotSize)
             ELSE RMul(RSub(entryPrice, p), lotSize)
        ELSE IF leg.action = Tag("BUY") THEN RMul(RSub(intrinsic, premium), lotSize)
             ELSE RMul(RSub(premium, intrinsic), lotSize)

C5_LegFormula ==
    (IsCustomList /\ ret.ok) =>
        LET L == args.custom_legs.list
            U == args.underlying_price
            grid == CustomGrid
        IN  \A i \in 1..Len(L) : WellTagged(L[i]) =>
                \A k \in DOMAIN grid :
                    /\ leg_pnl(L[i], U, grid[k], "at") = Ok(C5Formula(L[i], U, grid[k]))
                    /\ Len(L) = 1 =>
                          ret.val[k].pnl = Round2(C5Formula(L[i], U, grid[k]))

\* a single put leg that relies on the strike and premium defaults
C5_Witness ==
    /\ IsCustomList /\ ret.ok /\ Len(args.custom_legs.list) = 1
    /\ WellTagged(args.custom_legs.list[1])
    /\ args.custom_legs.list[1].type = Tag("PE")
    /\ "strike" \notin DOMAIN args.custom_legs.list[1]
    /\ \E k \in DOMAIN ret.val : ret.val[k].pnl # R(0)

\* C6: calculate returns a curve of exactly 50 points for each of the six
\* fixed strategies and an empty curve, without error, for "custom-strategy"
\* with legs empty or absent.
C6_CurveLength ==
    IsCalc =>
        /\ (args.strategy_type \in FixedStrategies /\ ret.ok) =>
              /\ Len(ret.val) = 50
              /\ response.status = 200 /\ Len(response.body) = 50
        /\ (args.strategy_type = "custom-strategy" /\ Falsy(args.custom_legs)) =>
              /\ ret = Ok(<<>>)
              /\ response = [status |-> 200, body |-> <<>>]

C6_Witness ==
    /\ IsCalc /\ args.strategy_type = "custom-strategy"
    /\ args.custom_legs = List(<<>>) /\ ret.ok /\ Len(ret.val) = 0

\* C7: calculate with a strategyType that is not one of the seven known
\* identifiers fails with an unknown-strategy-type error carrying the
\* offending value, returns no curve, and the endpoint answers 400.
KnownTypes == FixedStrategies \cup {"custom-strategy"}

C7_UnknownStrategyRejected ==
    (IsCalc /\ args.strategy_type \notin KnownTypes) =>
        /\ ~ret.ok
        /\ ret.exc = "ValueError"
        /\ ret.text = "Unknown strategy type: "
        /\ ret.arg = args.strategy_type
        /\ response.status = 400
        /\ "body" \notin DOMAIN response
        /\ response.detail.text = "Unknown strategy type: "
        /\ response.detail.arg = args.strategy_type

C7_Witness ==
    /\ IsCalc /\ args.strategy_type = "Covered-Call"
    /\ response.status = 400

DocumentedDefaults(st, U) ==
    CASE st = "covered-call" ->
            [futuresPrice |-> U, callStrike |-> RAdd(U, R(500)),
             premium |-> R(200), futuresLotSize |-> R(50), callLotSize |-> R(50)]
      [] st = "bull-call-spread" ->
            [longCallStrike |-> U, shortCallStrike |-> RAdd(U, R(1000)),
             longCallPremium |-> R(300), shortCallPremium |-> R(150),
             lotSize |-> R(50)]
      [] st = "iron-condor" ->
            [putBuyStrike |-> RSub(U, R(1000)), putSellStrike |-> RSub(U, R(500)),
             callSellStrike |-> RAdd(U, R(500)), callBuyStrike |-> RAdd(U, R(1000)),
             netPremium |-> R(100), lotSize |-> R(50)]
      [] st = "long-straddle" ->
            [strike |-> U, callPremium |-> R(300), putPremium |-> R(300),
             lotSize |-> R(50)]
      [] st = "protective-put" ->
            [stockPrice |-> U, putStrike |-> RSub(U, R(500)),
             putPremium |-> R(200), lotSize |-> R(50)]
      [] st = "butterfly-spread" ->
            [lowerStrike |-> RSub(U, R(500)), middleStrike |-> U,
             upperStrike |-> RAdd(U, R(500)), lowerPremium |-> R(300),
             middlePremium |-> R(200), upperPremium |-> R(100), lotSize |-> R(50)]

C9_DefaultsResolve ==
    IsFixed =>
        LET st == args.strategy_type
            U == args.underlying_price
            d == ArgDict
            doc == DocumentedDefaults(st, U)
            full == [k \in KeySet(st) \cup DOMAIN d |->
                        IF k \in DOMAIN d THEN d[k] ELSE Num(doc[k])]
            Calc(prm) == calculate_payoff(st, prm, U, args.price_range_percent,
                                          args.custom_legs)
        IN  /\ Calc(Dict(full)) = ret
            /\ args.parameters.t = "none" => Calc(Dict(<<>>)) = ret
            /\ DOMAIN d = {} => Calc(None) = ret
            /\ (\A k \in KeySet(st) \cap DOMAIN d : Float(d[k]).ok) => ret.ok
            /\ ret.ok =>
                  LET v == ArgParams.val
                  IN  \A i \in 1..Len(Keys(st)) :
                         v[i] = IF Keys(st)[i] \in DOMAIN d
                                THEN Float(d[Keys(st)[i]]).val
                                ELSE doc[Keys(st)[i]]

\* some keys supplied, the others left to their defaults
C9_Witness ==
    /\ IsFixed /\ ret.ok
    /\ args.strategy_type = "iron-condor"
    /\ "callBuyStrike" \in DOMAIN ArgDict
    /\ "putBuyStrike" \notin DOMAIN ArgDict

\* C10: a recognized parameter of the selected strategy, or a numeric field
\* of a custom leg, whose value cannot be converted to a number makes the
\* calculation fail with a client-input error (400) that names the offending
\* field, and no curve is returned.
NumericLegFields == {"lotSize", "entryPrice", "strike", "premium"}
FieldName(k) == [t |-> "field", name |-> k]

MalformedFields ==
    IF args.strategy_type \in FixedStrategies
    THEN {k \in KeySet(args.strategy_type) \cap DOMAIN ArgDict : ~Float(ArgDict[k]).ok}
    ELSE IF args.strategy_type = "custom-strategy" /\ args.custom_legs.t = "list"
    THEN UNION {{k \in NumericLegFields \cap DOMAIN args.custom_legs.list[i] :
                    ~Float(args.custom_legs.list[i][k]).ok} :
                i \in 1..Len(args.custom_legs.list)}
    ELSE {}

C10_MalformedParameterRejected ==
    (IsCalc /\ MalformedFields # {}) =>
        /\ ~ret.ok
        /\ response.status = 400
        /\ "body" \notin DOMAIN response
        /\ \E k \in MalformedFields : response.detail.arg = FieldName(k)

\* C11: calculate_price_range called with num_points below 2 (1, 0 or
\* negative) ends in a failure and never returns a grid.
C11_FewPointsFail ==
    (IsGridCall /\ args.num_points < 2) => ~ret.ok

\* C12: the long-straddle P&L of every returned point is
\* ((max(0, p - strike) - callPremium) + (max(0, strike - p) - putPremium))
\* x lotSize; at p = strike it is -(callPremium + putPremium) x lotSize,
\* which is -30000 in the documented scenario.
C12Formula(v, p) ==
    RMul(RAdd(RSub(RMax0(RSub(p, v[1])), v[2]),
              RSub(RMax0(RSub(v[1], p)), v[3])), v[4])

C12_LongStraddleFormula ==
    (IsCalc /\ args.strategy_type = "long-straddle" /\ ret.ok) =>
        LET v == ArgParams.val
            grid == ArgGrid
        IN  /\ \A k \in DOMAIN ret.val :
                  ret.val[k].pnl = Round2(C12Formula(v, grid[k]))
            /\ long_straddle_pnl(v, v[1], "at")
                  = RNeg(RMul(RAdd(v[2], v[3]), v[4]))
            /\ args.parameters = Dict(ScenarioLongStraddle) =>
                  /\ long_straddle_pnl(v, R(18000), "at") = R(-30000)
                  /\ \A k \in DOMAIN ret.val :
                        ret.val[k].price = R(18000) => ret.val[k].pnl = R(-30000)

\* the documented scenario, with the strike 18000 one of the sampled prices
C12_Witness ==
    /\ IsCalc /\ args.strategy_type = "long-straddle" /\ ret.ok
    /\ args.parameters = Dict(ScenarioLongStraddle)
    /\ \E k \in DOMAIN ret.val :
          ret.val[k] = [price |-> R(18000), pnl |-> R(-30000)]

\* C13: in every output point price is the grid price rounded to 2
\* decimals and pnl is the strategy formula applied to the unrounded grid
\* price and then rounded to 2 decimals; pnl is neither computed from the
\* rounded price nor left unrounded.
C13_RoundedIndependently ==
    /\ (IsFixed /\ ret.ok) =>
          LET v == ArgParams.val
              grid == ArgGrid
          IN  \A k \in DOMAIN ret.val :
                 /\ ret.val[k].price = Round2(grid[k])
                 /\ ret.val[k].pnl
                       = Round2(strategy_pnl(args.strategy_type, v, grid[k], "at"))
    /\ (IsCustomList /\ ret.ok) =>
          LET L == args.custom_legs.list
              U == args.underlying_price
              grid == CustomGrid
          IN  \A k \in DOMAIN ret.val :
                 /\ ret.val[k].price = Round2(grid[k])
                 /\ ret.val[k].pnl = Round2(custom_total(L, U, grid[k], "at").val)

\* a grid price with more than 2 decimals at which the P&L of the rounded
\* price and the unrounded P&L both differ from the returned pnl
C13_Witness ==
    /\ IsFixed /\ ret.ok /\ args.strategy_type = "covered-call"
    /\ LET v == ArgParams.val
           grid == ArgGrid
       IN  \E k \in DOMAIN ret.val :
              /\ ret.val[k].price # grid[k]
              /\ ret.val[k].pnl # covered_call_pnl(v, grid[k], "at")
              /\ ret.val[k].pnl # Round2(covered_call_pnl(v, ret.val[k].price, "at"))

\* C14: in any interleaving of concurrent calculate_payoff calls, each call
\* returns exactly the curve, or the failure, that the call returns when run
\* alone with the same arguments, and calls with the same arguments return
\* the same result.
AloneResult(request) ==
    calculate_payoff(request.strategy_type, request.parameters,
                     request.underlying_price, request.price_range_percent,
                     request.custom_legs)

C14_CallsIndependent ==
    \A c \in Callers :
        frames[c].pc = "done" =>
            /\ frames[c].ret = AloneResult(frames[c].args)
            /\ \A d \in Callers :
                  (frames[d].pc = "done" /\ frames[d].args = frames[c].args)
                     => frames[d].ret = frames[c].ret

\* a finished call while another call, with other arguments, is in its
\* price loop
C14_Witness ==
    /\ frames[2].pc = "done" /\ frames[2].ret.ok /\ Len(frames[2].ret.val) = 50
    /\ frames[1].pc = "loop"
    /\ frames[1].args # frames[2].args

\* C15: delete_strategy(id) returns True exactly when a strategy with that
\* id is stored; after True, get_strategy_by_id(id) gives None, a second
\* delete_strategy(id) gives False and every other stored strategy is
\* unchanged; after False the store is unchanged.
IsDeleteStep == last'.op = "delete_strategy" /\ clock' = clock

C15_DeleteStrategy ==
    [][IsDeleteStep =>
          /\ last'.ret = (last'.strategy_id \in DOMAIN db)
          /\ last'.ret =>
                /\ get_strategy_by_id(db', last'.strategy_id) = None
                /\ delete_strategy(db', last'.strategy_id).ret = FALSE
                /\ DOMAIN db' = DOMAIN db \ {last'.strategy_id}
                /\ \A j \in DOMAIN db' : db'[j] = db[j]
                /\ last'.status = 200
          /\ ~last'.ret => (db' = db /\ last'.status = 404)]_vars

\* a strategy was deleted and another one is still stored
C15_Witness ==
    /\ last.op = "delete_strategy" /\ last.ret = TRUE
    /\ DOMAIN db # {}

\* C16: update_strategy(id, data) on an id that is not stored returns None
\* and leaves the store unchanged; on a stored id it overwrites exactly the
\* fields provided in data and leaves the id, the other stored strategies and
\* every field not provided unchanged, except updated_at, which is either
\* unchanged or the time of the update.
IsUpdateStep == last'.op = "update_strategy" /\ clock' = clock

UpdateFrame(untouched) ==
    IF last'.strategy_id \notin DOMAIN db
    THEN last'.ret = None /\ db' = db
    ELSE /\ DOMAIN db' = DOMAIN db
         /\ \A j \in DOMAIN db \ {last'.strategy_id} : db'[j] = db[j]
         /\ last'.ret = db'[last'.strategy_id]
         /\ db'[last'.strategy_id].id = last'.strategy_id
         /\ \A k \in DOMAIN last'.data :
               db'[last'.strategy_id][k] = last'.data[k]
         /\ \A k \in untouched \ DOMAIN last'.data :
               db'[last'.strategy_id][k] = db[last'.strategy_id][k]
         /\ db'[last'.strategy_id].updated_at
               \in {db[last'.strategy_id].updated_at, clock}

RMax(x, y) == IF RGt(x, y) THEN x ELSE y

C17_IronCondorBounded ==
    (IsCalc /\ args.strategy_type = "iron-condor" /\ ret.ok) =>
        LET v == ArgParams.val
            grid == ArgGrid
            hi == RMul(v[6], v[1])
            lo == RMul(RSub(v[6], RMax(RSub(v[3], v[2]), RSub(v[5], v[4]))), v[1])
        IN  (RLt(v[2], v[3]) /\ RLe(v[3], v[4]) /\ RLt(v[4], v[5]) /\ RGt(v[1], R(0))) =>
               \A k \in DOMAIN grid :
                  /\ RLe(iron_condor_pnl(v, grid[k], "at"), hi)
                  /\ RLe(lo, iron_condor_pnl(v, grid[k], "at"))
                  /\ RLe(ret.val[k].pnl, Round2(hi))
                  /\ RLe(Round2(lo), ret.val[k].pnl)


\* C18: covered-call, bull-call-spread, long-straddle, protective-put and
\* butterfly-spread have, at every grid price, the same prices and the same
\* unrounded P&L as custom-strategy run on the corresponding legs with the
\* same underlyingPrice and rangePercent; the returned pnl values agree to
\* within 0.01, and covered-call, which performs the operations of its legs
\* in the same order, returns the identical curve.
FutLeg(action, lot, entry) ==
    [type |-> Tag("FUT"), action |-> Tag(action), lotSize |-> Num(lot),
     entryPrice |-> Num(entry)]
OptLeg(type, action, lot, strike, premium) ==
    [type |-> Tag(type), action |-> Tag(action), lotSize |-> Num(lot),
     strike |-> Num(strike), premium |-> Num(premium)]

CorrespondingLegs(st, v) ==
    CASE st = "covered-call" ->
            <<FutLeg("BUY", v[4], v[1]), OptLeg("CE", "SELL", v[5], v[2], v[3])>>
      [] st = "bull-call-spread" ->
            <<OptLeg("CE", "BUY", v[5], v[1], v[3]),
              OptLeg("CE", "SELL", v[5], v[2], v[4])>>
      [] st = "long-straddle" ->
            <<OptLeg("CE", "BUY", v[4], v[1], v[2]),
              OptLeg("PE", "BUY", v[4], v[1], v[3])>>
      [] st = "protective-put" ->
            <<FutLeg("BUY", v[4], v[1]), OptLeg("PE", "BUY", v[4], v[2], v[3])>>
      [] st = "butterfly-spread" ->
            <<OptLeg("CE", "BUY", v[7], v[1], v[4]),
              OptLeg("CE", "SELL", RMul(R(2), v[7]), v[2], v[5]),
              OptLeg("CE", "BUY", v[7], v[3], v[6])>>

HasLegs == IsFixed /\ args.strategy_type # "iron-condor" /\ ret.ok

IsGrid == IsGridCall /\ ret.ok /\ Len(ret.val) >= 2

C19_Symmetric ==
    IsGrid =>
        LET n == Len(ret.val)
            U == args.underlying_price
        IN  /\ \A k \in 1..n : RAdd(ret.val[k], ret.val[n + 1 - k]) = RMul(R(2), U)
            /\ ( /\ n = NumPointsDefault
                 /\ RGt(args.price_range_percent, R(0))
                 /\ ~RIsZero(U) )
               => \A k \in 1..n : ret.val[k] # U

\* 50 points around a positive reference price, the two middle ones on
\* either side of it
C19_Witness ==
    /\ IsGrid /\ Len(ret.val) = NumPointsDefault
    /\ RGt(args.underlying_price, R(0))
    /\ RGt(args.price_range_percent, R(0))
    /\ RLt(ret.val[25], args.underlying_price)
    /\ RLt(args.underlying_price, ret.val[26])

\* C19 as stated: ... with 50 points and rangePercent > 0, underlyingPrice
\* is never one of the sampled prices.
C19_Original ==
    IsGrid =>
        LET n == Len(ret.val)
            U == args.underlying_price
        IN  /\ \A k \in 1..n : RAdd(ret.val[k], ret.val[n + 1 - k]) = RMul(R(2), U)
            /\ (n = NumPointsDefault /\ RGt(args.price_range_percent, R(0)))
               => \A k \in 1..n : ret.val[k] # U


\* C20: in the custom-leg evaluator a BUY leg and a SELL leg that agree on
\* type, lotSize, entryPrice, strike and premium have P&Ls that sum to zero
\* at every grid price, and a non-empty leg list made only of such pairs
\* yields 50 points whose pnl is 0.
PairFields == {"type", "lotSize", "entryPrice", "strike", "premium"}

IsPair(a, b) ==
    /\ Get(a, "action", None) = Tag("BUY")
    /\ Get(b, "action", None) = Tag("SELL")
    /\ \A f \in PairFields : Get(a, f, None) = Get(b, f, None)

Without(L, i, j) == [k \in 1..(Len(L) - 2) |->
                        IF k < i THEN L[k]
                        ELSE IF k + 1 < j THEN L[k + 1] ELSE L[k + 2]]

\* the list can be split into BUY/SELL pairs
RECURSIVE OnlyPairs(_)
OnlyPairs(L) ==
    \/ L = <<>>
    \/ \E j \in 2..Len(L) :
          /\ IsPair(L[1], L[j]) \/ IsPair(L[j], L[1])
          /\ OnlyPairs(Without(L, 1, j))

IsPairedList ==
    /\ IsCustomList /\ ret.ok
    /\ args.custom_legs.list # <<>>
    /\ OnlyPairs(args.custom_legs.list)

C20_PairsCancel ==
    /\ (IsCustomList /\ ret.ok) =>
          LET L == args.custom_legs.list
              U == args.underlying_price
              grid == CustomGrid
          IN  \A i, j \in DOMAIN L :
                 IsPair(L[i], L[j]) =>
                    \A k \in DOMAIN grid :
                       RAdd(leg_pnl(L[i], U, grid[k], "at").val,
                            leg_pnl(L[j], U, grid[k], "at").val) = R(0)
    /\ IsPairedList =>
          /\ Len(ret.val) = NumPointsDefault
          /\ \A k \in DOMAIN ret.val : ret.val[k].pnl = R(0)

\* two interleaved pairs, one of them an option with a premium, sampled on
\* both sides of the strike
C20_Witness ==
    /\ IsPairedList
    /\ Len(args.custom_legs.list) = 4
    /\ ~IsPair(args.custom_legs.list[1], args.custom_legs.list[2])
    /\ \E i \in DOMAIN args.custom_legs.list :
          LET leg == args.custom_legs.list[i]
          IN  /\ Get(leg, "type", None) = Tag("PE")
              /\ Float(Get(leg, "premium", Num(R(0)))).val # R(0)
              /\ RLt(ret.val[1].price, Float(leg.strike).val)
              /\ RLt(Float(leg.strike).val, ret.val[NumPointsDefault].price)


\* C21: the custom-leg evaluator never rejects a leg for its tags: a leg
\* whose type is neither "FUT" nor "CE" (or is missing) is valued as a put, a
\* leg whose action is not "BUY" (or is missing) is valued as sold, and a leg
\* without lotSize is valued with lotSize 0 and contributes 0 at every price;
\* the only errors of the evaluator are the float() errors of a leg's
\* numeric fields.
Retagged(leg) ==
    [f \in DOMAIN leg \cup {"type", "action", "lotSize"} |->
        CASE f = "type" ->
                IF Get(leg, "type", None) \in {Tag("FUT"), Tag("CE")}
                THEN leg.type ELSE Tag("PE")
          [] f = "action" ->
                IF Get(leg, "action", None) = Tag("BUY")
                THEN leg.action ELSE Tag("SELL")
          [] f = "lotSize" -> Get(leg, "lotSize", Num(R(0)))
          [] OTHER -> leg[f]]

NumericFields == {"lotSize", "entryPrice", "strike", "premium"}
FloatErrors(leg) ==
    {Float(leg[f]) : f \in {g \in NumericFields \cap DOMAIN leg : ~Float(leg[g]).ok}}

C21_TagsNeverRejected ==
    IsCustomList =>
        LET L == args.custom_legs.list
            U == args.underlying_price
            grid == CustomGrid
        IN  /\ ~ret.ok => \E i \in 1..Len(L) : ret \in FloatErrors(L[i])
            /\ ret.ok =>
                  \A i \in 1..Len(L) : ~WellTagged(L[i]) =>
                     \A k \in DOMAIN grid :
                        /\ leg_pnl(L[i], U, grid[k], "at")
                              = Ok(C5Formula(Retagged(L[i]), U, grid[k]))
                        /\ "lotSize" \notin DOMAIN L[i] =>
                              leg_pnl(L[i], U, grid[k], "at") = Ok(R(0))
                        /\ Len(L) = 1 =>
                              ret.val[k].pnl
                                 = Round2(C5Formula(Retagged(L[i]), U, grid[k]))

\* a single leg with neither type nor action and a lotSize other than 0,
\* sampled below its strike, where a put has intrinsic value
C21_Witness ==
    /\ IsCustomList /\ ret.ok /\ Len(args.custom_legs.list) = 1
    /\ LET leg == args.custom_legs.list[1]
       IN  /\ "type" \notin DOMAIN leg /\ "action" \notin DOMAIN leg
           /\ "lotSize" \in DOMAIN leg
           /\ \E k \in DOMAIN ret.val :
                 /\ RLt(ret.val[k].price, Float(leg.strike).val)
                 /\ ret.val[k].pnl
                       = RMul(RSub(Float(leg.premium).val,
                                   RSub(Float(leg.strike).val, ret.val[k].price)),
                              Float(leg.lotSize).val)
                 /\ ret.val[k].pnl # R(0)

====
